---- MODULE Spec2Model ----
(***************************************************************************)
(* Model of the ecocoin-back claim engine: the fee scanner                 *)
(* (src/solana.rs check_fee_paid), the fee ledger (src/db.rs               *)
(* record_fee_if_new / mark_fee_used), and the claim handler               *)
(* (src/api/user.rs claim_airdrop) with its database and chain effects.    *)
(*                                                                         *)
(* Every awaited database statement or chain call of claim_airdrop is one  *)
(* atomic step; concurrent requests interleave between the steps.          *)
(***************************************************************************)
EXTENDS Integers, Sequences, FiniteSets, Bags, TLC

\* ------------------------------------------------------------------ bounds

\* Claim requests received over a whole run.
MaxReqs == 2
\* Claim requests that may be in flight at the same time.
MaxInFlight == 2
\* Claim requests received over a run of SpecSeq, which handles them one at
\* a time.
MaxReqsSeq == 3
\* Fee transactions that reach the treasury over a whole run.
MaxTxs == 1
\* Length of the treasury history handed to the scanner in SpecScan.
MaxHist == 3
\* Ledger calls made over a run of SpecFee.
MaxCalls == 4
\* treasury transactions older than the scanner's window
MaxOlder == 2
\* connect_wallet / complete_task requests over a run
MaxJobs == 2

\* ------------------------------------------------------- program constants

\* const REQUIRED_LAMPORTS: u64 = 6_000
REQUIRED_LAMPORTS == 6000
\* limit: Some(50) of the signature-history query
SCAN_LIMIT == 50
\* if user_info.total_points < 1000
CLAIM_THRESHOLD == 1000
\* solana::send_tokens(&req.wallet_address, 1000), log_airdrop(.., 1000, ..),
\* deduct_user_points(.., 1000)
REWARD_TOKENS == 1000

\* The treasury ("airdrop wallet") address the scanner looks for.
TREASURY == "DkrCNNn27B1Loz6eGpMYKAL7b5J4GY6wwQs8wqY9ERBT"

\* Registered wallets (rows of the users table).
Wallets == {"A", "B"}

\* Option::None of the Rust code.
None == "None"

\* The JSON "error" / "status" texts claim_airdrop answers with.
InsufficientPoints == "Not enough points (min 1000)"
FeeNotDetected == "Fee not detected"
FeeAlreadyUsed == "Fee already used for previous claim"
AirdropSent == "Airdrop sent"
\* "error": e.to_string() of a failed send_tokens
DisbursementFailed == "send_tokens error"
\* a `.unwrap()` on an Err: the handler task panics, no JSON answer is produced
Panicked == "panic"

VARIABLES
    total_points,    \* users.total_points, by wallet_address
    has_claimed,     \* users.has_claimed, by wallet_address
    fee_payments,    \* rows of fee_payments: [wallet_address, tx_signature, used]
    airdrop_log,     \* rows of airdrop_log: [wallet_address, amount_sent, tx_signature]
    chain,           \* treasury transaction history, newest first
    transfers,       \* confirmed token transfers: [to, amount, sig, fee_tx]
    reqs,            \* bag of the claim_airdrop invocations in flight
    n_started,       \* claim requests received so far
    answer,          \* the request that ended last, with its answer
    call,            \* SpecFee: the fee-ledger calls made so far, oldest first
    scan,            \* SpecScan: the scanner's input and result
    send,            \* SpecSend: one call of send_tokens and the chain it acts on
    completed_tasks, \* rows of completed_tasks: <<wallet, task>>
    referrer_id,     \* users.referrer_id, by wallet_address (None: NULL)
    jobs,            \* bag of connect_wallet / complete_task invocations in flight
    n_jobs           \* connect_wallet / complete_task requests received so far

vars == <<total_points, has_claimed, fee_payments, airdrop_log, chain,
          transfers, reqs, n_started, answer, call, scan, send,
          completed_tasks, referrer_id, jobs, n_jobs>>

\* What the point-earning handlers keep besides users.total_points.
earning == <<completed_tasks, referrer_id, jobs, n_jobs>>

db == <<total_points, has_claimed, fee_payments, airdrop_log>>

Min(a, b) == IF a < b THEN a ELSE b

\* ------------------------------------------------------------ fee scanner

\* pubkeys.iter().position(|k| k == key): 1-based index of the first
\* occurrence, 0 when absent.
Position(pubkeys, key) ==
    IF \E i \in 1..Len(pubkeys) : pubkeys[i] = key
    THEN CHOOSE i \in 1..Len(pubkeys) :
            /\ pubkeys[i] = key
            /\ \A j \in 1..(i - 1) : pubkeys[j] # key
    ELSE 0

\* Mutant of Qualifies: the fee test written `delta > REQUIRED_LAMPORTS`.
Qualifies_Mut(tx, user_wallet) ==
    /\ tx.meta # <<>>
    /\ LET meta == tx.meta[1]
           idx == Position(tx.account_keys, TREASURY)
       IN  /\ idx # 0
           /\ meta.post_balances[idx] - meta.pre_balances[idx]
                 > REQUIRED_LAMPORTS
           /\ \E i \in 1..Len(tx.account_keys) :
                 tx.account_keys[i] = user_wallet

\* A fetched transaction is [signature, meta, account_keys]: meta is <<>>
\* (None) or <<[pre_balances, post_balances]>> (Some), the balances indexed
\* like account_keys.
\* The body of the scanner's loop for one fetched transaction: metadata
\* present, treasury among the keys, treasury balance delta >= the required
\* fee, and the user's key among the keys.
Qualifies(tx, user_wallet) ==
    /\ tx.meta # <<>>
    /\ LET meta == tx.meta[1]
           idx == Position(tx.account_keys, TREASURY)
       IN  /\ idx # 0
           /\ meta.post_balances[idx] - meta.pre_balances[idx]
                 >= REQUIRED_LAMPORTS
           /\ \E i \in 1..Len(tx.account_keys) :
                 tx.account_keys[i] = user_wallet

\* Mutant of FetchSignatures: the history query without its limit.
FetchSignatures_Mut(history) == history

\* get_signatures_for_address_with_config(.., limit: Some(50)): the newest
\* SCAN_LIMIT entries of the history.
FetchSignatures(history) == SubSeq(history, 1, Min(Len(history), SCAN_LIMIT))

\* Mutant of FirstQualifying: the loop ends, finding nothing, at a
\* transaction without metadata or without the treasury key.
RECURSIVE FirstQualifying_Mut(_, _, _)
FirstQualifying_Mut(sigs, i, user_wallet) ==
    IF i > Len(sigs) THEN 0
    ELSE IF Qualifies(sigs[i], user_wallet) THEN i
    ELSE IF sigs[i].meta = <<>> \/ Position(sigs[i].account_keys, TREASURY) = 0
         THEN 0
    ELSE FirstQualifying_Mut(sigs, i + 1, user_wallet)

\* for sig_info in sigs { ... return at the first match }: index of the
\* first transaction from position i on that qualifies, 0 when the loop
\* runs off the end.
RECURSIVE FirstQualifying(_, _, _)
FirstQualifying(sigs, i, user_wallet) ==
    IF i > Len(sigs) THEN 0
    ELSE IF Qualifies(sigs[i], user_wallet) THEN i
    ELSE FirstQualifying(sigs, i + 1, user_wallet)

\* check_fee_paid as claim_airdrop consumes it: the signature of the
\* transaction at which the loop returns, None when it finds nothing.
check_fee_paid(history, user_wallet) ==
    LET sigs == FetchSignatures(history)
        k == FirstQualifying(sigs, 1, user_wallet)
    IN  IF k = 0 THEN None ELSE sigs[k].signature

\* ------------------------------------------------------------- fee ledger

\* SELECT used FROM fee_payments WHERE tx_signature = $1
SelectFee(rows, tx) == {r \in rows : r.tx_signature = tx}

\* Mutant of record_fee_result: any recorded transaction is refused, used or
\* not.
record_fee_result_Mut(rows, tx) == SelectFee(rows, tx) = {}

\* record_fee_if_new's answer from the fetched row(s): false when the row
\* is used, true when it is unused or absent.
record_fee_result(rows, tx) ==
    LET exists == SelectFee(rows, tx)
    IN  IF exists # {}
        THEN ~(\E r \in exists : r.used)
        ELSE TRUE

\* INSERT INTO fee_payments (wallet_address, tx_signature) VALUES ($1, $2)
\* (used takes the column default, false)
InsertFee(rows, wallet, tx) ==
    rows \cup {[wallet_address |-> wallet, tx_signature |-> tx, used |-> FALSE]}

\* Mutant of record_fee_if_new: the row is inserted without looking for an
\* existing one.
record_fee_if_new_Mut(rows, wallet, tx) ==
    rows \cup {[wallet_address |-> wallet, tx_signature |-> tx, used |-> FALSE]}

\* record_fee_if_new run without interleaving: the ledger afterwards.
record_fee_if_new(rows, wallet, tx) ==
    IF SelectFee(rows, tx) # {} THEN rows ELSE InsertFee(rows, wallet, tx)

\* UPDATE fee_payments SET used = TRUE
\*   WHERE wallet_address = $1 AND tx_signature = $2
mark_fee_used(rows, wallet, tx) ==
    {IF r.wallet_address = wallet /\ r.tx_signature = tx
        THEN [r EXCEPT !.used = TRUE] ELSE r : r \in rows}

\* ---------------------------------------------------------- claim_airdrop

\* Mutant of NewReq: an admitted request goes straight to send_tokens.
NewReq_Mut(w) == [pc |-> "send_tokens", wallet_address |-> w, fee_tx |-> None,
                  sig |-> None]

\* One invocation of claim_airdrop: where it stands (the call it is about
\* to make) and its locals.
NewReq(w) == [pc |-> "check_fee_paid", wallet_address |-> w, fee_tx |-> None,
              sig |-> None]

NoAnswer == [wallet_address |-> None, fee_tx |-> None, sig |-> None,
             outcome |-> None]

InFlight == BagToSet(reqs)

\* The invocation r moves on as q.
Continue(r, q) == reqs' = (reqs (-) SetToBag({r})) (+) SetToBag({q})

\* The invocation r ends with the answer `text` (the JSON body, or a panic).
Respond(r, text) ==
    /\ reqs' = reqs (-) SetToBag({r})
    /\ answer' = [wallet_address |-> r.wallet_address, fee_tx |-> r.fee_tx,
                  sig |-> r.sig, outcome |-> text]

\* Chain signatures of fee payments and of token transfers.
FeeSig(n) == <<"T1", "T2", "T3", "T4", "T5">>[n]
TransferSig(n) == <<"S1", "S2", "S3", "S4", "S5", "S6">>[n]

\* Mutant of BelowThreshold: the gate written `<= 1000`.
BelowThreshold_Mut(points) == points <= CLAIM_THRESHOLD

\* if user_info.total_points < 1000 { return "Not enough points" }
BelowThreshold(points) == points < CLAIM_THRESHOLD

\* A request arrives (at most `limit` over the run, at most `concurrent` in
\* flight); get_user_info reads the wallet's row and the points gate is
\* applied to what was read.
ClaimArrives(w, limit, concurrent) ==
    /\ n_started < limit
    /\ BagCardinality(reqs) < concurrent
    /\ n_started' = n_started + 1
    /\ IF BelowThreshold(total_points[w])
       THEN /\ answer' = [NoAnswer EXCEPT !.wallet_address = w,
                                          !.outcome = InsufficientPoints]
            /\ UNCHANGED reqs
       ELSE /\ reqs' = reqs (+) SetToBag({NewReq(w)})
            /\ UNCHANGED answer
    /\ UNCHANGED <<db, chain, transfers, call, scan, send, earning>>

GetUserInfo(w) == ClaimArrives(w, MaxReqs, MaxInFlight)

\* A request arrives and db::get_user_info returns Err (database failure):
\* `.unwrap()` panics before the balance is looked at.
ClaimPanics(w, limit, concurrent) ==
    /\ n_started < limit
    /\ BagCardinality(reqs) < concurrent
    /\ n_started' = n_started + 1
    /\ answer' = [NoAnswer EXCEPT !.wallet_address = w, !.outcome = Panicked]
    /\ UNCHANGED <<db, chain, transfers, reqs, call, scan, send, earning>>

GetUserInfoErr(w) == ClaimPanics(w, MaxReqs, MaxInFlight)

\* solana::check_fee_paid(&req.wallet_address): scan of the treasury history.
CheckFeePaid(r) ==
    /\ r.pc = "check_fee_paid"
    /\ LET paid_sig == check_fee_paid(chain, r.wallet_address)
       IN  IF paid_sig = None
           THEN Respond(r, FeeNotDetected)
           ELSE /\ Continue(r, [r EXCEPT !.pc = "record_fee_select",
                                         !.fee_tx = paid_sig])
                /\ UNCHANGED answer
    /\ UNCHANGED <<db, chain, transfers, n_started, call, scan, send, earning>>

\* record_fee_if_new, first statement: the SELECT and the branch on it.
RecordFeeSelect(r) ==
    /\ r.pc = "record_fee_select"
    /\ IF SelectFee(fee_payments, r.fee_tx) = {}
       THEN /\ Continue(r, [r EXCEPT !.pc = "record_fee_insert"])
            /\ UNCHANGED answer
       ELSE IF record_fee_result(fee_payments, r.fee_tx)
            THEN /\ Continue(r, [r EXCEPT !.pc = "send_tokens"])
                 /\ UNCHANGED answer
            ELSE Respond(r, FeeAlreadyUsed)
    /\ UNCHANGED <<db, chain, transfers, n_started, call, scan, send, earning>>

\* fee_payments.tx_signature is declared unique ("transaction_id unique").
TxSignatureUnique == TRUE

\* record_fee_if_new, second statement: the INSERT. Against a row another
\* request inserted meanwhile the statement fails and `.unwrap()` panics.
RecordFeeInsert(r) ==
    /\ r.pc = "record_fee_insert"
    /\ IF TxSignatureUnique /\ SelectFee(fee_payments, r.fee_tx) # {}
       THEN /\ Respond(r, Panicked)
            /\ UNCHANGED fee_payments
       ELSE /\ fee_payments' = InsertFee(fee_payments, r.wallet_address, r.fee_tx)
            /\ Continue(r, [r EXCEPT !.pc = "send_tokens"])
            /\ UNCHANGED answer
    /\ UNCHANGED <<total_points, has_claimed, airdrop_log, chain, transfers,
                   n_started, call, scan, send, earning>>

\* solana::send_tokens(&req.wallet_address, 1000) returns Ok(sig): the
\* transfer is confirmed on chain.
SendTokensOk(r) ==
    /\ r.pc = "send_tokens"
    /\ LET sig == TransferSig(Cardinality(transfers) + 1)
       IN  /\ transfers' = transfers \cup
                   {[to |-> r.wallet_address, amount |-> REWARD_TOKENS,
                     sig |-> sig, fee_tx |-> r.fee_tx]}
           /\ Continue(r, [r EXCEPT !.pc = "log_airdrop", !.sig = sig])
    /\ UNCHANGED <<db, chain, n_started, answer, call, scan, send, earning>>

\* solana::send_tokens returns Err(e): answered as {"error": e.to_string()}.
SendTokensErr(r) ==
    /\ r.pc = "send_tokens"
    /\ Respond(r, DisbursementFailed)
    /\ UNCHANGED <<db, chain, transfers, n_started, call, scan, send, earning>>

\* Mutant of LogAirdrop: the table is overwritten with the new entry.
LogAirdrop_Mut(r) ==
    /\ r.pc = "log_airdrop"
    /\ airdrop_log' = {[wallet_address |-> r.wallet_address,
                        amount_sent |-> REWARD_TOKENS, tx_signature |-> r.sig]}
    /\ Continue(r, [r EXCEPT !.pc = "deduct_user_points"])
    /\ UNCHANGED <<total_points, has_claimed, fee_payments, chain, transfers,
                   n_started, answer, call, scan, send, earning>>

\* db::log_airdrop(&req.wallet_address, 1000, &sig)
LogAirdrop(r) ==
    /\ r.pc = "log_airdrop"
    /\ airdrop_log' = airdrop_log \cup
           {[wallet_address |-> r.wallet_address,
             amount_sent |-> REWARD_TOKENS, tx_signature |-> r.sig]}
    /\ Continue(r, [r EXCEPT !.pc = "deduct_user_points"])
    /\ UNCHANGED <<total_points, has_claimed, fee_payments, chain, transfers,
                   n_started, answer, call, scan, send, earning>>

\* db::deduct_user_points(&req.wallet_address, 1000)
DeductUserPoints(r) ==
    /\ r.pc = "deduct_user_points"
    /\ total_points' = [total_points EXCEPT ![r.wallet_address] =
                            @ - REWARD_TOKENS]
    /\ Continue(r, [r EXCEPT !.pc = "set_claimed"])
    /\ UNCHANGED <<has_claimed, fee_payments, airdrop_log, chain, transfers,
                   n_started, answer, call, scan, send, earning>>

\* db::set_claimed(&req.wallet_address)
SetClaimed(r) ==
    /\ r.pc = "set_claimed"
    /\ has_claimed' = [has_claimed EXCEPT ![r.wallet_address] = TRUE]
    /\ Continue(r, [r EXCEPT !.pc = "mark_fee_used"])
    /\ UNCHANGED <<total_points, fee_payments, airdrop_log, chain, transfers,
                   n_started, answer, call, scan, send, earning>>

\* db::mark_fee_used(&req.wallet_address, &fee_tx), then the success answer.
MarkFeeUsed(r) ==
    /\ r.pc = "mark_fee_used"
    /\ fee_payments' = mark_fee_used(fee_payments, r.wallet_address, r.fee_tx)
    /\ Respond(r, AirdropSent)
    /\ UNCHANGED <<total_points, has_claimed, airdrop_log, chain, transfers,
                   n_started, call, scan, send, earning>>

\* The awaited calls, after get_user_info, whose Result claim_airdrop unwraps.
UnwrapSites == {"check_fee_paid", "record_fee_select", "record_fee_insert",
                "log_airdrop", "deduct_user_points", "set_claimed",
                "mark_fee_used"}

\* The awaited call returns Err (database or RPC failure) without effect and
\* `.unwrap()` panics: the handler ends there.
UnwrapPanic(r) ==
    /\ r.pc \in UnwrapSites
    /\ Respond(r, Panicked)
    /\ UNCHANGED <<db, chain, transfers, n_started, call, scan, send, earning>>

\* A fee payment is confirmed on chain: a transaction naming the payers and
\* the treasury, raising the treasury balance by the required fee. A pays
\* alone, or in a transaction that names B as well.
PayerLists == {<<"A">>, <<"A", "B">>}

FeeTx(n, payers) ==
    [signature |-> FeeSig(n),
     account_keys |-> payers \o <<TREASURY>>,
     meta |-> <<[pre_balances |-> [i \in 1..(Len(payers) + 1) |-> 10000],
                 post_balances |-> [i \in 1..(Len(payers) + 1) |->
                     IF i = Len(payers) + 1 THEN 10000 + REQUIRED_LAMPORTS
                     ELSE IF i = 1 THEN 10000 - REQUIRED_LAMPORTS
                     ELSE 10000]]>>]

PayFee(payers) ==
    /\ Len(chain) < MaxTxs
    /\ chain' = <<FeeTx(Len(chain) + 1, payers)>> \o chain
    /\ UNCHANGED <<db, transfers, reqs, n_started, answer, call, scan, send, earning>>

\* Point balances the registered wallets hold when the service starts: A one
\* short of the threshold or exactly at it, B with enough for two claims.
StartPoints ==
    {[w \in Wallets |-> IF w = "A" THEN p ELSE 2 * CLAIM_THRESHOLD] :
        p \in {CLAIM_THRESHOLD - 1, CLAIM_THRESHOLD}}

NoCall == <<>>
NoScan == [history |-> <<>>, user_wallet |-> None, result |-> "not run"]
\* send_tokens not called.
NoSend == [pc |-> "not called", to_wallet |-> None, ata0 |-> None,
           ata |-> None, simulated |-> <<>>, submitted |-> <<>>,
           result |-> None]
\* No task completed, no referrer linked, no earning request in flight.
NoEarning ==
    /\ completed_tasks = {}
    /\ referrer_id = [w \in Wallets |-> None]
    /\ jobs = EmptyBag
    /\ n_jobs = 0

Init ==
    /\ total_points \in StartPoints
    /\ has_claimed = [w \in Wallets |-> FALSE]
    /\ fee_payments = {}
    /\ airdrop_log = {}
    /\ chain = <<>>
    /\ transfers = {}
    /\ reqs = EmptyBag
    /\ n_started = 0
    /\ answer = NoAnswer
    /\ call = NoCall
    /\ scan = NoScan
    /\ send = NoSend
    /\ NoEarning

\* The steps of the requests in flight, and the fee payments.
Steps ==
    \/ \E r \in InFlight : CheckFeePaid(r)
    \/ \E r \in InFlight : RecordFeeSelect(r)
    \/ \E r \in InFlight : RecordFeeInsert(r)
    \/ \E r \in InFlight : SendTokensOk(r)
    \/ \E r \in InFlight : SendTokensErr(r)
    \/ \E r \in InFlight : LogAirdrop(r)
    \/ \E r \in InFlight : DeductUserPoints(r)
    \/ \E r \in InFlight : SetClaimed(r)
    \/ \E r \in InFlight : MarkFeeUsed(r)
    \/ \E r \in InFlight : UnwrapPanic(r)
    \/ \E payers \in PayerLists : PayFee(payers)

Next ==
    \/ \E w \in Wallets : GetUserInfo(w)
    \/ \E w \in Wallets : GetUserInfoErr(w)
    \/ Steps

Spec == Init /\ [][Next]_vars

\* The same service receiving its requests one after the other: a request
\* arrives only when none is in flight.
GetUserInfoSeq(w) == ClaimArrives(w, MaxReqsSeq, 1)
GetUserInfoErrSeq(w) == ClaimPanics(w, MaxReqsSeq, 1)

NextSeq ==
    \/ \E w \in Wallets : GetUserInfoSeq(w)
    \/ \E w \in Wallets : GetUserInfoErrSeq(w)
    \/ Steps

SpecSeq == Init /\ [][NextSeq]_vars

\* ------------------------------------------- the fee ledger, called alone

\* Transaction ids and wallets handed to the ledger calls.
LedgerTxs == {"T1", "T2"}

\* One whole call of db::record_fee_if_new(wallet, tx): its answer and the
\* ledger it leaves. `call` keeps each call with the ledger before and after.
CallRecordFee(wallet, tx) ==
    /\ Len(call) < MaxCalls
    /\ fee_payments' = record_fee_if_new(fee_payments, wallet, tx)
    /\ call' = Append(call, [op |-> "record_fee_if_new", wallet |-> wallet,
                             tx |-> tx,
                             result |-> record_fee_result(fee_payments, tx),
                             before |-> fee_payments,
                             after |-> fee_payments'])
    /\ UNCHANGED <<total_points, has_claimed, airdrop_log, chain, transfers,
                   reqs, n_started, answer, scan, send, earning>>

\* One whole call of db::mark_fee_used(wallet, tx); it returns Ok(()).
CallMarkFeeUsed(wallet, tx) ==
    /\ Len(call) < MaxCalls
    /\ fee_payments' = mark_fee_used(fee_payments, wallet, tx)
    /\ call' = Append(call, [op |-> "mark_fee_used", wallet |-> wallet,
                             tx |-> tx, result |-> TRUE,
                             before |-> fee_payments,
                             after |-> fee_payments'])
    /\ UNCHANGED <<total_points, has_claimed, airdrop_log, chain, transfers,
                   reqs, n_started, answer, scan, send, earning>>

NextFee ==
    \/ \E wallet \in Wallets, tx \in LedgerTxs : CallRecordFee(wallet, tx)
    \/ \E wallet \in Wallets, tx \in LedgerTxs : CallMarkFeeUsed(wallet, tx)

SpecFee == Init /\ [][NextFee]_vars

\* ---------------------------------------------- the scanner, called alone

\* A transaction as get_transaction returns it: the account keys, and the
\* metadata (absent, or the balances before and after, by key index).
Shape(keys, has_meta, deltas) ==
    [account_keys |-> keys,
     meta |-> IF has_meta
              THEN <<[pre_balances |-> [i \in 1..Len(keys) |-> 10000],
                      post_balances |-> [i \in 1..Len(keys) |->
                                             10000 + deltas[i]]]>>
              ELSE <<>>]

\* Treasury transactions the synthetic histories are made of: a payment of
\* exactly the fee by A, one lamport short, a larger one with the treasury
\* key first, a payment by B alone, one naming both wallets, one without
\* metadata, one that does not touch the treasury, and a payout from the
\* treasury to A.
TxShapes ==
    {Shape(<<"A", TREASURY>>, TRUE, <<-6000, 6000>>),
     Shape(<<"A", TREASURY>>, TRUE, <<-5999, 5999>>),
     Shape(<<TREASURY, "A">>, TRUE, <<7000, -7000>>),
     Shape(<<"B", TREASURY>>, TRUE, <<-6000, 6000>>),
     Shape(<<"A", "B", TREASURY>>, TRUE, <<-6000, 0, 6000>>),
     Shape(<<"A", TREASURY>>, FALSE, <<0, 0>>),
     Shape(<<"A", "B">>, TRUE, <<-6000, 6000>>),
     Shape(<<TREASURY, "A">>, TRUE, <<-7000, 7000>>)}

\* Histories of up to MaxHist transactions, newest first, each with its own
\* signature.
Histories ==
    {[i \in DOMAIN shapes |-> [signature |-> FeeSig(i),
                      account_keys |-> shapes[i].account_keys,
                      meta |-> shapes[i].meta]] :
        shapes \in UNION {[1..n -> TxShapes] : n \in 0..MaxHist}}

InitScan ==
    /\ total_points = [w \in Wallets |-> 0]
    /\ has_claimed = [w \in Wallets |-> FALSE]
    /\ fee_payments = {}
    /\ airdrop_log = {}
    /\ chain = <<>>
    /\ transfers = {}
    /\ reqs = EmptyBag
    /\ n_started = 0
    /\ answer = NoAnswer
    /\ call = NoCall
    /\ send = NoSend
    /\ NoEarning
    /\ scan \in {[history |-> h, user_wallet |-> w, result |-> "not run"] :
                    h \in Histories, w \in Wallets}

\* One call of check_fee_paid(user_wallet) against the history.
RunScan ==
    /\ scan.result = "not run"
    /\ scan' = [scan EXCEPT !.result =
                    check_fee_paid(scan.history, scan.user_wallet)]
    /\ UNCHANGED <<db, chain, transfers, reqs, n_started, answer, call, send,
                   earning>>

NextScan == RunScan

SpecScan == InitScan /\ [][NextScan]_vars

\* -------------------------------------- the scanner at the window's edge

\* Signatures of a long treasury history, by position (1 = newest).
WindowSig(i) == "W" \o ToString(i)

\* Treasury transactions that fill the history around the one of interest:
\* a payment by A one lamport short, or a full payment by B alone.
FillerShapes ==
    {Shape(<<"A", TREASURY>>, TRUE, <<-5999, 5999>>),
     Shape(<<"B", TREASURY>>, TRUE, <<-6000, 6000>>)}

\* Histories of SCAN_LIMIT - 1 to SCAN_LIMIT + MaxOlder treasury
\* transactions, all fillers of one kind except, at position k (none when
\* k = 0), a payment of exactly the fee by A.
WindowHistories ==
    {[i \in 1..n |->
        LET shape == IF i = k
                     THEN Shape(<<"A", TREASURY>>, TRUE,
                                <<-REQUIRED_LAMPORTS, REQUIRED_LAMPORTS>>)
                     ELSE filler
        IN  [signature |-> WindowSig(i),
             account_keys |-> shape.account_keys,
             meta |-> shape.meta]] :
        n \in (SCAN_LIMIT - 1)..(SCAN_LIMIT + MaxOlder),
        k \in 0..(SCAN_LIMIT + MaxOlder),
        filler \in FillerShapes}

\* The service with such a history on chain and both wallets at the
\* threshold; one scan is prepared against the same history.
InitWindow ==
    /\ total_points = [w \in Wallets |-> CLAIM_THRESHOLD]
    /\ has_claimed = [w \in Wallets |-> FALSE]
    /\ fee_payments = {}
    /\ airdrop_log = {}
    /\ transfers = {}
    /\ reqs = EmptyBag
    /\ n_started = 0
    /\ answer = NoAnswer
    /\ call = NoCall
    /\ send = NoSend
    /\ NoEarning
    /\ scan \in {[history |-> h, user_wallet |-> w, result |-> "not run"] :
                    h \in WindowHistories, w \in Wallets}
    /\ chain = scan.history

\* One claim request arrives.
GetUserInfoWindow(w) == ClaimArrives(w, 1, 1)

\* The scanner called alone, and one claim taken as far as its scan.
NextWindow ==
    \/ RunScan
    \/ \E w \in Wallets : GetUserInfoWindow(w)
    \/ \E r \in InFlight : CheckFeePaid(r)

SpecWindow == InitWindow /\ [][NextWindow]_vars

\* ------------------------------------------------ send_tokens, called alone

\* spl_token::ID, the owner send_tokens requires of the receiving account.
TOKEN_PROGRAM_ID == "token_program"

\* The recipient's associated token account on chain: absent, owned by the
\* token program, or owned by another program.
AtaStates == {"absent", TOKEN_PROGRAM_ID, "other_program"}

\* The two transactions send_tokens builds.
AtaTx == "create_associated_token_account"
TransferTx == "transfer_checked"

\* Error texts of send_tokens.
SetupFailed == "missing or invalid configuration"
WrongOwner == "ATA exists but owned by wrong program"
AtaBlockhashFailed == "Failed to fetch blockhash for ATA creation"
SimulationFailed == "ATA creation simulation failed"
AtaCreationFailed == "Failed to create ATA"
TransferBlockhashFailed == "Failed to fetch blockhash for transfer"
TransferFailed == "Transfer failed"

\* send_tokens moves to `pc`; nothing else of the service changes.
SendGoes(pc) ==
    /\ send' = [send EXCEPT !.pc = pc]
    /\ UNCHANGED <<db, chain, transfers, reqs, n_started, answer, call, scan,
                   earning>>

\* send_tokens returns Err(text).
SendFails(text) ==
    /\ send' = [send EXCEPT !.pc = "done", !.result = text]
    /\ UNCHANGED <<db, chain, transfers, reqs, n_started, answer, call, scan,
                   earning>>

\* The transaction tx is handed to send_and_confirm_transaction; then as
\* SendGoes / SendFails.
SendSubmits(tx, pc, result, ata) ==
    /\ send' = [send EXCEPT !.pc = pc, !.result = result, !.ata = ata,
                            !.submitted = Append(@, tx)]
    /\ UNCHANGED <<db, chain, transfers, reqs, n_started, answer, call, scan,
                   earning>>

\* rpc.simulate_transaction(&ata_tx) is called, with the given outcome.
SendSimulates(outcome, pc, result) ==
    /\ send' = [send EXCEPT !.pc = pc, !.result = result,
                            !.simulated = Append(@, outcome)]
    /\ UNCHANGED <<db, chain, transfers, reqs, n_started, answer, call, scan,
                   earning>>

\* Environment, keypair, mint and recipient address are read.
SetupOk == send.pc = "setup" /\ SendGoes("get_account")
SetupErr == send.pc = "setup" /\ SendFails(SetupFailed)

\* rpc.get_account(&recipient_token_account) returns Ok(account): the
\* account exists; the owner check follows.
GetAccountOk ==
    /\ send.pc = "get_account"
    /\ send.ata # "absent"
    /\ IF send.ata # TOKEN_PROGRAM_ID
       THEN SendFails(WrongOwner)
       ELSE SendGoes("transfer_blockhash")

\* rpc.get_account returns Err(_): the account is not found, or the RPC call
\* failed; both take the creation branch.
GetAccountErr ==
    /\ send.pc = "get_account"
    /\ SendGoes("ata_blockhash")

AtaBlockhashOk == send.pc = "ata_blockhash" /\ SendGoes("simulate")
AtaBlockhashErr == send.pc = "ata_blockhash" /\ SendFails(AtaBlockhashFailed)

\* The simulation passes (sim.value.err is None): possible only when the
\* account is absent.
SimulationPasses ==
    /\ send.pc = "simulate"
    /\ send.ata = "absent"
    /\ SendSimulates("passed", "send_ata", None)

\* The simulation reports an execution error: send_tokens returns Err.
SimulationReportsErr ==
    /\ send.pc = "simulate"
    /\ SendSimulates("err", "done", SimulationFailed)

\* The simulation call itself fails (Err(e)): the error is printed and the
\* function goes on.
SimulationRpcErr ==
    /\ send.pc = "simulate"
    /\ SendSimulates("rpc failed", "send_ata", None)

\* rpc.send_and_confirm_transaction(&ata_tx): the account is created ...
SendAtaOk ==
    /\ send.pc = "send_ata"
    /\ send.ata = "absent"
    /\ SendSubmits(AtaTx, "transfer_blockhash", None, TOKEN_PROGRAM_ID)

\* ... or the submission fails.
SendAtaErr ==
    /\ send.pc = "send_ata"
    /\ SendSubmits(AtaTx, "done", AtaCreationFailed, send.ata)

TransferBlockhashOk ==
    send.pc = "transfer_blockhash" /\ SendGoes("send_transfer")
TransferBlockhashErr ==
    send.pc = "transfer_blockhash" /\ SendFails(TransferBlockhashFailed)

\* rpc.send_and_confirm_transaction(&tx) of the transfer: Ok(sig) or Err.
SendTransferOk ==
    /\ send.pc = "send_transfer"
    /\ SendSubmits(TransferTx, "done", "Ok", send.ata)

SendTransferErr ==
    /\ send.pc = "send_transfer"
    /\ SendSubmits(TransferTx, "done", TransferFailed, send.ata)

\* Meanwhile on chain: the recipient's account is created by someone else
\* (the recipient's own wallet software) while send_tokens is running.
AtaAppears ==
    /\ send.pc \notin {"not called", "done"}
    /\ send.ata = "absent"
    /\ send' = [send EXCEPT !.ata = TOKEN_PROGRAM_ID]
    /\ UNCHANGED <<db, chain, transfers, reqs, n_started, answer, call, scan,
                   earning>>

\* send_tokens(to_wallet, 1000) is called with the receiving account in
\* one of its three states.
InitSend ==
    /\ total_points = [w \in Wallets |-> 0]
    /\ has_claimed = [w \in Wallets |-> FALSE]
    /\ fee_payments = {}
    /\ airdrop_log = {}
    /\ chain = <<>>
    /\ transfers = {}
    /\ reqs = EmptyBag
    /\ n_started = 0
    /\ answer = NoAnswer
    /\ call = NoCall
    /\ scan = NoScan
    /\ NoEarning
    /\ send \in {[pc |-> "setup", to_wallet |-> w, ata0 |-> a, ata |-> a,
                  simulated |-> <<>>, submitted |-> <<>>, result |-> None] :
                    w \in Wallets, a \in AtaStates}

NextSend ==
    \/ SetupOk
    \/ SetupErr
    \/ GetAccountOk
    \/ GetAccountErr
    \/ AtaBlockhashOk
    \/ AtaBlockhashErr
    \/ SimulationPasses
    \/ SimulationReportsErr
    \/ SimulationRpcErr
    \/ SendAtaOk
    \/ SendAtaErr
    \/ TransferBlockhashOk
    \/ TransferBlockhashErr
    \/ SendTransferOk
    \/ SendTransferErr
    \/ AtaAppears

SpecSend == InitSend /\ [][NextSend]_vars

\* ------------------------------------- connect_wallet and complete_task

\* add_referral_points: total_points = total_points + 100
REFERRAL_POINTS == 100

\* Rows of the tasks table: one task, worth 500 points.
Tasks == {"t1"}
TaskPoints(task) == 500

\* Referral codes a connect_wallet request carries: none, the address of a
\* registered wallet, or a code no user has.
ReferralCodes == {None, "unknown"} \cup Wallets

JobsInFlight == BagToSet(jobs)

\* An invocation of connect_wallet or complete_task, at the database call it
\* is about to make.
NewJob(op, pc, wallet, code, task) ==
    [op |-> op, pc |-> pc, wallet |-> wallet, code |-> code, task |-> task]

\* A request arrives (at most MaxJobs over the run).
JobArrives(j) ==
    /\ n_jobs < MaxJobs
    /\ n_jobs' = n_jobs + 1
    /\ jobs' = jobs (+) SetToBag({j})
    /\ UNCHANGED <<db, completed_tasks, referrer_id>>

\* The invocation j moves to its next call / returns to the caller.
JobGoes(j, pc) ==
    /\ jobs' = (jobs (-) SetToBag({j})) (+) SetToBag({[j EXCEPT !.pc = pc]})
    /\ UNCHANGED n_jobs

JobEnds(j) ==
    /\ jobs' = jobs (-) SetToBag({j})
    /\ UNCHANGED n_jobs

\* What no earning step touches.
claiming == <<fee_payments, airdrop_log, chain, transfers, reqs, n_started,
              answer, call, scan, send>>

\* POST connect_wallet {wallet_address, referral_code}
ConnectWallet(wallet, code) ==
    /\ JobArrives(NewJob("connect_wallet", "create_user", wallet, code, None))
    /\ UNCHANGED claiming

\* db::create_user: the wallet is registered already (ON CONFLICT DO
\* NOTHING, then SELECT id); without a referral code the handler is done.
CreateUser(j) ==
    /\ j.op = "connect_wallet" /\ j.pc = "create_user"
    /\ IF j.code = None THEN JobEnds(j) ELSE JobGoes(j, "referral_lookup")
    /\ UNCHANGED <<db, completed_tasks, referrer_id, claiming>>

\* db::get_user_id_by_referral_code: Some(id) for a registered wallet's code.
ReferralLookup(j) ==
    /\ j.op = "connect_wallet" /\ j.pc = "referral_lookup"
    /\ IF j.code \in Wallets THEN JobGoes(j, "set_referrer") ELSE JobEnds(j)
    /\ UNCHANGED <<db, completed_tasks, referrer_id, claiming>>

\* db::set_referrer: UPDATE users SET referrer_id = $1
\*   WHERE id = $2 AND referrer_id IS NULL
SetReferrer(j) ==
    /\ j.op = "connect_wallet" /\ j.pc = "set_referrer"
    /\ referrer_id' = IF referrer_id[j.wallet] = None
                      THEN [referrer_id EXCEPT ![j.wallet] = j.code]
                      ELSE referrer_id
    /\ JobGoes(j, "add_referral_points")
    /\ UNCHANGED <<db, completed_tasks, claiming>>

\* db::add_referral_points: UPDATE users SET total_points = total_points +
\* 100 WHERE id = $1; then "wallet connected".
AddReferralPoints(j) ==
    /\ j.op = "connect_wallet" /\ j.pc = "add_referral_points"
    /\ total_points' = [total_points EXCEPT ![j.code] = @ + REFERRAL_POINTS]
    /\ JobEnds(j)
    /\ UNCHANGED <<has_claimed, completed_tasks, referrer_id, claiming>>

\* POST complete_task {wallet_address, task_id}
CompleteTask(wallet, task) ==
    /\ JobArrives(NewJob("complete_task", "select_user", wallet, None, task))
    /\ UNCHANGED claiming

\* db::complete_task: SELECT id, has_claimed; a wallet that has claimed is
\* refused.
SelectUser(j) ==
    /\ j.op = "complete_task" /\ j.pc = "select_user"
    /\ IF has_claimed[j.wallet] THEN JobEnds(j)
       ELSE JobGoes(j, "select_completed")
    /\ UNCHANGED <<db, completed_tasks, referrer_id, claiming>>

\* SELECT 1 FROM completed_tasks WHERE user_id = $1 AND task_id = $2
SelectCompleted(j) ==
    /\ j.op = "complete_task" /\ j.pc = "select_completed"
    /\ IF <<j.wallet, j.task>> \in completed_tasks THEN JobEnds(j)
       ELSE JobGoes(j, "select_task")
    /\ UNCHANGED <<db, completed_tasks, referrer_id, claiming>>

\* SELECT points FROM tasks WHERE id = $1
SelectTask(j) ==
    /\ j.op = "complete_task" /\ j.pc = "select_task"
    /\ JobGoes(j, "insert_completed")
    /\ UNCHANGED <<db, completed_tasks, referrer_id, claiming>>

\* INSERT INTO completed_tasks (user_id, task_id)
InsertCompleted(j) ==
    /\ j.op = "complete_task" /\ j.pc = "insert_completed"
    /\ completed_tasks' = completed_tasks \cup {<<j.wallet, j.task>>}
    /\ JobGoes(j, "update_points")
    /\ UNCHANGED <<db, referrer_id, claiming>>

\* UPDATE users SET total_points = total_points + $1; then "task recorded".
UpdatePoints(j) ==
    /\ j.op = "complete_task" /\ j.pc = "update_points"
    /\ total_points' = [total_points EXCEPT ![j.wallet] = @ + TaskPoints(j.task)]
    /\ JobEnds(j)
    /\ UNCHANGED <<has_claimed, completed_tasks, referrer_id, claiming>>

\* A database call of either handler returns Err: the handler maps it to an
\* AppError response and does nothing more.
JobFails(j) ==
    /\ JobEnds(j)
    /\ UNCHANGED <<db, completed_tasks, referrer_id, claiming>>

EarnSteps ==
    \/ \E wallet \in Wallets, code \in ReferralCodes : ConnectWallet(wallet, code)
    \/ \E wallet \in Wallets, task \in Tasks : CompleteTask(wallet, task)
    \/ \E j \in JobsInFlight : CreateUser(j)
    \/ \E j \in JobsInFlight : ReferralLookup(j)
    \/ \E j \in JobsInFlight : SetReferrer(j)
    \/ \E j \in JobsInFlight : AddReferralPoints(j)
    \/ \E j \in JobsInFlight : SelectUser(j)
    \/ \E j \in JobsInFlight : SelectCompleted(j)
    \/ \E j \in JobsInFlight : SelectTask(j)
    \/ \E j \in JobsInFlight : InsertCompleted(j)
    \/ \E j \in JobsInFlight : UpdatePoints(j)
    \/ \E j \in JobsInFlight : JobFails(j)

\* The whole service: claims, registrations and task completions, all
\* handled concurrently.
NextAll ==
    \/ Next
    \/ EarnSteps

SpecAll == Init /\ [][NextAll]_vars

\* ------------------------- the earning handlers, each served on its own

\* complete_task requests only, handled concurrently.
TaskSteps ==
    \/ \E wallet \in Wallets, task \in Tasks : CompleteTask(wallet, task)
    \/ \E j \in JobsInFlight : SelectUser(j)
    \/ \E j \in JobsInFlight : SelectCompleted(j)
    \/ \E j \in JobsInFlight : SelectTask(j)
    \/ \E j \in JobsInFlight : InsertCompleted(j)
    \/ \E j \in JobsInFlight : UpdatePoints(j)
    \/ \E j \in JobsInFlight : JobFails(j)

SpecTasks == Init /\ [][TaskSteps]_vars

\* connect_wallet requests only, handled concurrently.
ReferSteps ==
    \/ \E wallet \in Wallets, code \in ReferralCodes : ConnectWallet(wallet, code)
    \/ \E j \in JobsInFlight : CreateUser(j)
    \/ \E j \in JobsInFlight : ReferralLookup(j)
    \/ \E j \in JobsInFlight : SetReferrer(j)
    \/ \E j \in JobsInFlight : AddReferralPoints(j)
    \/ \E j \in JobsInFlight : JobFails(j)

SpecRefer == Init /\ [][ReferSteps]_vars

\* ------------------------------------------------------------------ claims

\* A request for wallet w arrives in this step and is rejected by the points
\* gate / is admitted to fee verification.
RejectedAtGate(w) ==
    /\ n_started' = n_started + 1
    /\ answer' = [NoAnswer EXCEPT !.wallet_address = w,
                                  !.outcome = InsufficientPoints]
    /\ reqs' = reqs

AdmittedAtGate(w) ==
    /\ n_started' = n_started + 1
    /\ reqs' = reqs (+) SetToBag({NewReq(w)})

\* A request for wallet w arrives and ends in a panic: its balance could not
\* be read.
FailedAtGate(w) ==
    /\ n_started' = n_started + 1
    /\ answer' = [NoAnswer EXCEPT !.wallet_address = w, !.outcome = Panicked]
    /\ reqs' = reqs

\* C1: a fee transaction id funds at most one successful token transfer:
\* no two confirmed transfers were made by claims whose scan returned the
\* same transaction, whatever the wallets and the interleaving.
C1_FeeFundsAtMostOneTransfer ==
    \A t1, t2 \in transfers : t1.fee_tx = t2.fee_tx => t1 = t2

C2_SuccessState ==
    answer.outcome = AirdropSent =>
        /\ {t \in transfers : t.sig = answer.sig} =
               {[to |-> answer.wallet_address, amount |-> 1000,
                 sig |-> answer.sig, fee_tx |-> answer.fee_tx]}
        /\ has_claimed[answer.wallet_address]
        /\ \E row \in fee_payments :
               row.tx_signature = answer.fee_tx /\ row.used
        /\ {e \in airdrop_log : e.tx_signature = answer.sig} =
               {[wallet_address |-> answer.wallet_address, amount_sent |-> 1000,
                 tx_signature |-> answer.sig]}

C2_DeductsExactly1000 ==
    \A r \in InFlight :
        (r.pc = "deduct_user_points" /\ Continue(r, [r EXCEPT !.pc = "set_claimed"]))
            => total_points' = [total_points EXCEPT ![r.wallet_address] =
                                    total_points[r.wallet_address] - 1000]

\* C2: when a claim is answered "Airdrop sent", one transfer of exactly 1000
\* tokens was made to the wallet, the wallet is marked claimed, the fee
\* record of the transaction it found is used, and the log holds exactly one
\* entry (wallet, 1000, signature) for it; and the deduction step of a claim
\* takes exactly 1000 points from its wallet.
C2_SuccessfulClaim == []C2_SuccessState /\ [][C2_DeductsExactly1000]_vars

\* C3: the last answer was "Airdrop sent" to wallet W for fee transaction T,
\* and a later claim by W for which the scanner found T again is at the
\* ledger check: unless the database call itself fails, it is answered "Fee
\* already used for previous claim", and the step changes neither the
\* database nor the transfers.
C3_SecondClaimRejected ==
    [][\A r \in InFlight :
          (/\ answer.outcome = AirdropSent
           /\ answer.wallet_address = r.wallet_address
           /\ answer.fee_tx = r.fee_tx
           /\ r.pc = "record_fee_select"
           /\ CopiesIn(r, reqs') < CopiesIn(r, reqs)
           /\ answer'.outcome # Panicked)
              => /\ answer' = [wallet_address |-> r.wallet_address,
                               fee_tx |-> r.fee_tx, sig |-> None,
                               outcome |-> FeeAlreadyUsed]
                 /\ UNCHANGED <<db, transfers>>]_vars

\* C4: a request for a wallet with fewer than 1000 points is answered
\* "Not enough points" in the step that reads the balance, with no scan, no
\* ledger write and no transfer (database, chain and transfers unchanged,
\* nothing left in flight); a request for a wallet with 1000 points or more
\* goes on to fee verification; a request does one or the other according
\* to the balance, unless the balance could not be read.
C4_EligibilityThreshold ==
    [][\A w \in Wallets :
          /\ RejectedAtGate(w) =>
                /\ total_points[w] < 1000
                /\ UNCHANGED <<db, chain, transfers>>
          /\ AdmittedAtGate(w) => total_points[w] >= 1000
          /\ (n_started' = n_started + 1) =>
                \E v \in Wallets :
                    \/ FailedAtGate(v)
                    \/ IF total_points[v] < 1000
                       THEN RejectedAtGate(v) ELSE AdmittedAtGate(v)]_vars

\* C4 witness: wallet A, holding 999 points, was answered "Not enough
\* points" and nothing was scanned, recorded or sent, while a request of
\* wallet B, holding 2000, is in flight past the gate.
C4_Witness ==
    /\ answer.outcome = InsufficientPoints
    /\ answer.wallet_address = "A"
    /\ total_points["A"] = 999
    /\ answer.fee_tx = None
    /\ fee_payments = {} /\ transfers = {}
    /\ \E r \in InFlight : r.wallet_address = "B"

\* C5: a request for a wallet whose has_claimed flag is set is not admitted
\* past the eligibility stage (it is rejected there, whatever its points).
C5_ClaimedWalletRejected ==
    [][\A w \in Wallets : has_claimed[w] => ~AdmittedAtGate(w)]_vars

\* C6: record_fee_if_new answers false exactly when a record of the
\* transaction exists with used = true, and then leaves the ledger as it was;
\* for a transaction never seen it answers true and adds one unused record
\* of it; for one recorded unused it answers true and adds nothing; whatever
\* wallet is passed.
C6_RecordFeeContract ==
    \A i \in 1..Len(call) :
        call[i].op = "record_fee_if_new" =>
            LET c == call[i]
                seen == {row \in c.before : row.tx_signature = c.tx}
                usedBefore == \E row \in seen : row.used
            IN  /\ (c.result = FALSE) <=> usedBefore
                /\ usedBefore => c.after = c.before
                /\ seen = {} =>
                      /\ c.result = TRUE
                      /\ c.after = c.before \cup
                            {[wallet_address |-> c.wallet, tx_signature |-> c.tx,
                              used |-> FALSE]}
                      /\ Cardinality(c.after) = Cardinality(c.before) + 1
                /\ (seen # {} /\ ~usedBefore) =>
                      c.result = TRUE /\ c.after = c.before

\* C6 witness: a transaction never seen is recorded under wallet A (answer
\* true), presented again under B while unused (answer true, nothing
\* added), and after it was marked used presented under B and refused.
C6_Witness ==
    \E i, j, k \in 1..Len(call) :
        /\ i < j /\ j < k
        /\ call[i].op = "record_fee_if_new" /\ call[i].wallet = "A"
        /\ call[i].before = {} /\ call[i].result = TRUE
        /\ call[j].op = "record_fee_if_new" /\ call[j].wallet = "B"
        /\ call[j].tx = call[i].tx /\ call[j].result = TRUE
        /\ call[k].op = "record_fee_if_new" /\ call[k].wallet = "B"
        /\ call[k].tx = call[i].tx /\ call[k].result = FALSE

\* Two record_fee_if_new calls for the same transaction id, one right after
\* the other (no mark_fee_used, nor any other call, between them).
TwoReservations(i, j) ==
    /\ j = i + 1
    /\ call[i].op = "record_fee_if_new"
    /\ call[j].op = "record_fee_if_new"
    /\ call[i].tx = call[j].tx

\* Both calls answered true, the second changed nothing, one record of tx.
SameReservation(i, j) ==
    /\ call[i].result = TRUE
    /\ call[j].result = TRUE
    /\ call[j].after = call[i].after
    /\ Cardinality({row \in call[j].after :
                        row.tx_signature = call[j].tx}) = 1

\* C7 as stated: two record_fee_if_new calls in sequence for the same
\* transaction id, no mark_fee_used in between, both answer true and leave
\* exactly one record of it, the ledger after the second as after the first.
C7_Original ==
    \A i, j \in 1..Len(call) : TwoReservations(i, j) => SameReservation(i, j)

\* C7 amended: the same, for a transaction id that has no record marked used
\* when the first call is made.
C7_IdempotentReservation ==
    \A i, j \in 1..Len(call) :
        (/\ TwoReservations(i, j)
         /\ ~\E row \in call[i].before :
                row.tx_signature = call[i].tx /\ row.used)
            => SameReservation(i, j)

\* C7 witness: a never-seen transaction is reserved under A and then again
\* under B: true both times, one record.
C7_Witness ==
    \E i, j \in 1..Len(call) :
        /\ TwoReservations(i, j)
        /\ call[i].before = {}
        /\ call[i].wallet = "A" /\ call[j].wallet = "B"
        /\ SameReservation(i, j)

\* C8: mark_fee_used(wallet, tx) leaves the record of tx used whenever a
\* record of tx exists, whatever wallet is passed; a second identical call
\* changes nothing more.
C8_MarkFeeUsedFlips ==
    \A i \in 1..Len(call) :
        call[i].op = "mark_fee_used" =>
            /\ (\E row \in call[i].before : row.tx_signature = call[i].tx) =>
                   \A row \in call[i].after :
                       row.tx_signature = call[i].tx => row.used
            /\ \A j \in 1..Len(call) :
                   (/\ j = i + 1
                    /\ call[j].op = "mark_fee_used"
                    /\ call[j].wallet = call[i].wallet
                    /\ call[j].tx = call[i].tx) => call[j].after = call[i].after

\* C9: when no claim is in flight, every confirmed transfer has its audit-log
\* entry, its wallet marked claimed and its fee transaction marked used
\* (whatever failed, or wherever the handler stopped, after the transfer).
C9_FinalizationAllOrNothing ==
    reqs = EmptyBag =>
        \A t \in transfers :
            /\ \E e \in airdrop_log :
                   e.tx_signature = t.sig /\ e.wallet_address = t.to
            /\ has_claimed[t.to]
            /\ \E row \in fee_payments :
                   row.tx_signature = t.fee_tx /\ row.used

\* The claim's conditions on one transaction, for claimant w.
C10_Good(tx, w) ==
    /\ Len(tx.meta) = 1
    /\ \E k \in 1..Len(tx.account_keys) :
          /\ tx.account_keys[k] = TREASURY
          /\ tx.meta[1].post_balances[k] - tx.meta[1].pre_balances[k] >= 6000
    /\ \E k \in 1..Len(tx.account_keys) : tx.account_keys[k] = w

NewestGood(h, w, i) ==
    /\ C10_Good(h[i], w)
    /\ \A j \in 1..(i - 1) : ~C10_Good(h[j], w)

C12_NoReprovisioning ==
    send.ata0 = TOKEN_PROGRAM_ID =>
        /\ send.simulated = <<>>
        /\ send.submitted \in {<<>>, <<TransferTx>>}

\* C20: when the receiving account does not exist and the provisioning
\* simulation failed (it reported an error, or the call itself failed),
\* nothing is submitted: neither the creation nor the transfer.
C20_SimulationFailureAborts ==
    (/\ send.ata0 = "absent"
     /\ \E i \in 1..Len(send.simulated) :
           send.simulated[i] \in {"err", "rpc failed"})
        => send.submitted = <<>>

\* C14: the point balance of every wallet is never negative.
C14_PointsNonNegative == \A w \in Wallets : total_points[w] >= 0

\* C15: no step increases the point balance of a wallet whose has_claimed
\* flag is set.
C15_NoEarningAfterClaim ==
    [][\A w \in Wallets :
          has_claimed[w] => total_points'[w] <= total_points[w]]_vars

\* C13: the fee ledger never holds two records of one transaction id, and
\* no record_fee_if_new call of a claim ends in a panic of the handler
\* because another claim reserved the same transaction meanwhile: every
\* reservation attempt ends in true or false.
C13_AtomicReservation ==
    /\ [](\A row1, row2 \in fee_payments :
             row1.tx_signature = row2.tx_signature => row1 = row2)
    /\ [][\A r \in InFlight :
             ~(RecordFeeInsert(r) /\ Respond(r, Panicked))]_vars

\* C16: a claim whose send_tokens call fails (the request at send_tokens
\* ends and no transfer was made) is answered with the error, and the step
\* leaves points, claimed flags, audit log and transfers as they were; the
\* record of its fee transaction is there with used = false afterwards; and
\* the same wallet's next claim finding the same transaction is not answered
\* "Fee already used".
C16_FailedSendFrame ==
    [][\A r \in InFlight :
          /\ (/\ r.pc = "send_tokens"
              /\ CopiesIn(r, reqs') < CopiesIn(r, reqs)
              /\ transfers' = transfers)
                => /\ answer' = [wallet_address |-> r.wallet_address,
                                 fee_tx |-> r.fee_tx, sig |-> None,
                                 outcome |-> DisbursementFailed]
                   /\ UNCHANGED <<total_points, has_claimed, airdrop_log>>
                   /\ \E row \in fee_payments' :
                          row.tx_signature = r.fee_tx /\ ~row.used
                   /\ \A row \in fee_payments' :
                          row.tx_signature = r.fee_tx => ~row.used
          /\ (/\ answer.outcome = DisbursementFailed
              /\ answer.wallet_address = r.wallet_address
              /\ answer.fee_tx = r.fee_tx
              /\ r.pc = "record_fee_select")
                => answer'.outcome # FeeAlreadyUsed]_vars

\* The stage(s) a request was at before it came to stand at a stage.
StageBefore ==
    [record_fee_select |-> {"check_fee_paid"},
     record_fee_insert |-> {"record_fee_select"},
     send_tokens |-> {"record_fee_select", "record_fee_insert"},
     log_airdrop |-> {"send_tokens"},
     deduct_user_points |-> {"log_airdrop"},
     set_claimed |-> {"deduct_user_points"},
     mark_fee_used |-> {"set_claimed"}]

\* In this step a request comes to stand as q / stops standing as r.
ComesToStand(q) == CopiesIn(q, reqs') > CopiesIn(q, reqs)
MovesOn(r) == CopiesIn(r, reqs') < CopiesIn(r, reqs)

\* q came from the stage before it, carrying what that stage produced: the
\* scanner's transaction at the ledger check, an unused (or just inserted)
\* record of it at send_tokens, the one new transfer of 1000 at the first
\* finalization write.
CameInOrder(q) ==
    \E r \in InFlight :
        /\ MovesOn(r)
        /\ r.wallet_address = q.wallet_address
        /\ r.pc \in StageBefore[q.pc]
        /\ IF q.pc = "record_fee_select"
           THEN /\ r.fee_tx = None
                /\ \E i \in 1..Len(chain) : chain[i].signature = q.fee_tx
           ELSE q.fee_tx = r.fee_tx /\ q.fee_tx # None
        /\ q.pc = "send_tokens" =>
              \E row \in fee_payments' :
                  /\ row.tx_signature = q.fee_tx
                  /\ r.pc = "record_fee_select" => row \in fee_payments /\ ~row.used
                  /\ r.pc = "record_fee_insert" => row \notin fee_payments
        /\ IF q.pc = "log_airdrop"
           THEN /\ r.sig = None /\ q.sig # None
                /\ \A t \in transfers : t.sig # q.sig
                /\ transfers' = transfers \cup
                      {[to |-> q.wallet_address, amount |-> 1000,
                        sig |-> q.sig, fee_tx |-> q.fee_tx]}
           ELSE q.sig = r.sig /\ transfers' = transfers

C17_Step ==
    /\ \A q \in BagToSet(reqs') :
          ComesToStand(q) =>
              IF q.pc = "check_fee_paid"
              THEN /\ n_started' = n_started + 1
                   /\ total_points[q.wallet_address] >= 1000
                   /\ q.fee_tx = None /\ q.sig = None
                   /\ transfers' = transfers
              ELSE CameInOrder(q)
    /\ transfers' # transfers =>
          \E q \in BagToSet(reqs') : ComesToStand(q) /\ q.pc = "log_airdrop"
    /\ (\/ airdrop_log' # airdrop_log
        \/ has_claimed' # has_claimed
        \/ \E w \in Wallets : total_points'[w] < total_points[w]
        \/ \E row \in fee_payments' : row.used /\ row \notin fee_payments)
          => \E r \in InFlight :
                /\ MovesOn(r)
                /\ r.pc \in {"log_airdrop", "deduct_user_points",
                             "set_claimed", "mark_fee_used"}
                /\ \E t \in transfers :
                      t.sig = r.sig /\ t.to = r.wallet_address

\* C17: within one claim the stages come in order: a request stands at the
\* scan only after the points check passed, at the ledger check only with
\* the transaction the scan returned, at send_tokens only after
\* record_fee_if_new found its record unused or inserted it; a transfer is
\* made only by a request at send_tokens; the four finalization writes are
\* made only by a request whose transfer succeeded; and no request makes a
\* second transfer (there are never more transfers than requests).
C17_StageOrdering ==
    /\ [][C17_Step]_vars
    /\ [](Cardinality(transfers) <= n_started)

\* C17 witness: a claim went through every stage: it was answered "Airdrop
\* sent", its transfer, log entry and used fee record are there.
C17_Witness ==
    /\ answer.outcome = AirdropSent
    /\ \E t \in transfers :
          /\ t.sig = answer.sig /\ t.fee_tx = answer.fee_tx
          /\ \E e \in airdrop_log : e.tx_signature = t.sig
          /\ has_claimed[t.to]
          /\ \E row \in fee_payments : row.tx_signature = t.fee_tx /\ row.used
    /\ Cardinality(transfers) = 1
    /\ reqs = EmptyBag

\* C18: no claim ends in a panic of the handler because the wallet could
\* not be looked up or because the chain could not be queried during fee
\* verification: such a request is answered.
C18_FailuresAreAnswered ==
    [][/\ \A w \in Wallets : ~FailedAtGate(w)
       /\ \A r \in InFlight :
             (r.pc = "check_fee_paid" /\ MovesOn(r))
                 => answer'.outcome # Panicked]_vars

\* The scan passes over this transaction without looking at balances: no
\* metadata, or the treasury not among its account keys.
Skipped(tx) ==
    \/ tx.meta = <<>>
    \/ \A k \in 1..Len(tx.account_keys) : tx.account_keys[k] # TREASURY

C21_WrongOwnerSubmitsNothing ==
    send.ata0 = "other_program" =>
        /\ send.submitted = <<>>
        /\ send.result # "Ok"

\* The audit-log entry e records the transfer t.
Records(e, t) ==
    /\ t.to = e.wallet_address
    /\ t.amount = e.amount_sent
    /\ t.sig = e.tx_signature

\* C22: every audit-log entry records a confirmed transfer to that wallet,
\* of that amount, with that signature; an entry is added only for a
\* transfer confirmed before the step; and no step changes or removes an
\* entry.
C22_AuditLogSound ==
    /\ [](\A e \in airdrop_log : \E t \in transfers : Records(e, t))
    /\ [][/\ airdrop_log \subseteq airdrop_log'
          /\ \A e \in airdrop_log' \ airdrop_log :
                \E t \in transfers : Records(e, t)]_vars

\* C22 witness: two claims succeeded; the log holds the first one's entry
\* still, and the second one's, each recording its transfer of 1000.
C22_Witness ==
    /\ Cardinality(airdrop_log) = 2
    /\ Cardinality(transfers) = 2
    /\ \A t \in transfers :
          \E e \in airdrop_log : Records(e, t) /\ e.amount_sent = 1000
    /\ reqs = EmptyBag

\* C23: with complete_task requests only, a wallet holds no more than its
\* starting points plus the points of each task it has completed, counted
\* once per task; and a completion request that finds its (wallet, task)
\* pair completed ends there, changing neither points nor the completed set.
C23_TaskCreditedOnce ==
    /\ [](\E start \in StartPoints :
             \A w \in Wallets :
                 total_points[w] <=
                     start[w] + TaskPoints("t1") *
                         Cardinality({t \in Tasks : <<w, t>> \in completed_tasks}))
    /\ [][\A j \in JobsInFlight :
             (/\ j.op = "complete_task"
              /\ j.pc = "select_completed"
              /\ <<j.wallet, j.task>> \in completed_tasks
              /\ CopiesIn(j, jobs') < CopiesIn(j, jobs))
                 => /\ BagCardinality(jobs') < BagCardinality(jobs)
                    /\ UNCHANGED <<total_points, completed_tasks>>]_vars

\* C24: with connect_wallet requests only, a referrer holds no more than
\* its starting points plus 100 for each wallet whose referrer it is; and a
\* referrer link, once set, is not changed.
C24_ReferralCreditedOnce ==
    /\ [](\E start \in StartPoints :
             \A w \in Wallets :
                 total_points[w] <=
                     start[w] + 100 *
                         Cardinality({v \in Wallets : referrer_id[v] = w}))
    /\ [][\A v \in Wallets :
             referrer_id[v] # None => referrer_id'[v] = referrer_id[v]]_vars

====
